---- MODULE Spec2Model ----
(***************************************************************************)
(* State-machine model of calhackproj/src-tauri/src/lib.rs: the Muse       *)
(* monitor task (monitor_muse_metrics, handle_muse_failure,                *)
(* discover_muse_port), the HTTP relay (receive_message), the WebSocket    *)
(* handler (handle_websocket) and the broadcast channel they share.        *)
(*                                                                         *)
(* Time is counted in ticks of 500 ms, the sleep of the poll loop.         *)
(* Option<T> is a sequence of length at most one: None is << >>,           *)
(* Some(v) is <<v>>.  A String that the code inspects (the attention       *)
(* label) is a sequence of one-character strings.                          *)
(***************************************************************************)
EXTENDS Integers, Sequences, FiniteSets, TLC

None == << >>
Some(v) == <<v>>

\* ------------------------------------------------------------- constants

\* Ticks per second: one tick is the 500 ms sleep of the poll loop.
TicksPerSecond == 2
\* A poll iteration sleeps 500 ms before it does anything else.
SleepTicks == 1
\* `elapsed.as_secs() >= 2`
StableSecs == 2
\* `*failures >= 5`
FailureThreshold == 5
\* `broadcast::channel::<DuckMessage>(100)`
Capacity == 100
\* MUSE_API_PORTS
MUSE_API_PORTS == <<5000, 5001, 5002, 5003, 5004, 5005>>

\* ---------------------------------------------------------------- bounds

\* The clock stops the model at MaxTime ticks.
MaxTime == 12
\* The monitor's horizon when the relay and the WebSocket handlers run beside it.
ServeTime == 1
\* Messages the Python backend posts to /api/message beside the monitor.
MaxPosted == 1
\* Messages it posts in a burst.
MaxBurst == 130
\* Ticks the monitor runs when the tasks are interleaved at the grain of their locks.
TaskTime == 6

\* Raw attention labels the metrics source reports.
Low == <<"L", "o", "w">>
High == <<"H", "i", "g", "h">>
AttentionLabels == {Low, High}

\* How long a poll iteration lasts: the sleep alone (the requests are answered at
\* once), or the sleep and as long again for the requests.
IterationTicks == {SleepTicks, SleepTicks + SleepTicks}

\* Indices of the candidate ports a server may be listening on while the monitor
\* runs; the other ports refuse the connection.
LivePorts == {1, 2}

\* WebSocket clients that may connect.
Clients == {"c1", "c2"}
Tasks == {"monitor", "status", "relay"}
Mutexes ==
    {"muse_connected", "consecutive_failures", "last_focus_state", "last_state_change",
     "message_count", "tauri_handle"}

\* Raw labels for the classification: a prefix, a stem and a suffix.
Prefixes == {<< >>, <<"U", "n">>, <<"u", "n">>, <<"U", "N">>}
Stems ==
    {<<"f", "o", "c", "u", "s", "e", "d">>, <<"F", "o", "c", "u", "s", "e", "d">>,
     <<"F", "O", "C", "U", "S", "E", "D">>, <<"f", "o", "c", "u", "s">>,
     Low, <<"l", "o", "w">>, <<"L", "O", "W">>, <<"F", "l", "o", "w">>,
     High, <<"N", "e", "u", "t", "r", "a", "l">>, <<"M", "e", "d", "i", "u", "m">>}
Suffixes == {<< >>, <<" ", "f", "o", "c", "u", "s">>, <<"-", "L", "o", "w">>}
RawLabels == {p \o s \o x : p \in Prefixes, s \in Stems, x \in Suffixes}

\* ----------------------------------------------------------------- state

VARIABLES
    muse_connected,                \* AppState.muse_connected
    consecutive_failures,          \* AppState.consecutive_failures
    last_focus_state,              \* AppState.last_focus_state : Option<String>
    last_state_change,             \* AppState.last_state_change : Option<Instant>
    message_count,                 \* AppState.message_count
    last_connection_message_sent,  \* local of monitor_muse_metrics
    muse_port,                     \* local of monitor_muse_metrics : Option<u16>
    now,                           \* the monotonic clock, in ticks
    ws_tx,                         \* every value sent on the broadcast channel, oldest first
    app_emitted,                   \* every "duck-message" emitted to the Tauri frontend
    posted,                        \* messages the Python backend has posted so far
    poll,                          \* the last poll iteration: its outcome, snapshot label and events
    failure_run,                   \* history: failure signals since the last success signal
    episode_events,                \* history: "EEG Disconnected" events since the last reconnection
    stable,                        \* history: label of the last snapshot and when its run began
    announced,                     \* history: the label last announced, and what happened since
    connected_at,                  \* history: when the monitor last became Connected
    ws_pc,                         \* per WebSocket client: where handle_websocket stands
    rx_next,                       \* per client: values sent before the next one its rx receives
    socket,                        \* per client: the messages written to its socket
    hung_up,                       \* per client: whether the client closed the connection
    rx_start,                      \* history, per client: values sent before it subscribed
    probe_resp,                    \* input of one discover_muse_port call
    discovered,                    \* its result
    raw_label,                     \* a raw attention label
    classified,                    \* the focus event built for it
    lock,                          \* per mutex of AppState: the task that holds its guard
    pc,                            \* per task: the instruction it is at, 0 when it is not running
    mon_local,                     \* the iteration the monitor is processing
    request_pending,               \* the request the monitor awaits without an answer
    status_count,                  \* local of get_service_status: message_count as read
    status                         \* the last ServiceStatus returned

monitor_vars == <<muse_connected, consecutive_failures, last_focus_state, last_state_change,
                  last_connection_message_sent, muse_port, now, poll>>
history_vars == <<failure_run, episode_events, stable, announced, connected_at>>
channel_vars == <<message_count, ws_tx, app_emitted, posted>>
ws_vars == <<ws_pc, rx_next, socket, hung_up, rx_start>>
discover_vars == <<probe_resp, discovered>>
task_vars == <<lock, pc, mon_local, request_pending, status_count, status>>
call_vars == <<raw_label, classified, task_vars>>

vars == <<monitor_vars, history_vars, channel_vars, ws_vars, discover_vars, call_vars>>

\* -------------------------------------------------------------- messages

\* DuckMessage.  timestamp: a relayed message keeps the stamp its sender gave it
\* (the sender's messages are numbered 1, 2, ...); the stamps the monitor takes
\* from the wall clock are read by nothing and are 0 here.
DuckMessage(message, msg_type, focus_state, timestamp) ==
    [message |-> message, msg_type |-> msg_type, focus_state |-> focus_state,
     timestamp |-> timestamp]

conn_msg == DuckMessage("EEG Connected", "connection_status", None, 0)
disconn_msg ==
    DuckMessage("EEG Disconnected - Please connect your Muse headset",
                "connection_status", None, 0)
welcome == DuckMessage("Connected to Duck Controller!", "connection", None, 0)

\* ------------------------------------------------- discover_muse_port

ProbeOutcomes == {"ok", "bad_status", "error"}
ProbeResponses == [1..Len(MUSE_API_PORTS) -> ProbeOutcomes]

\* The `for &port in MUSE_API_PORTS` loop from index i on; resp[i] is what the
\* i-th port answers when it is probed.  probed lists the requests sent.
RECURSIVE probe_from(_, _)
probe_from(resp, i) ==
    IF i > Len(MUSE_API_PORTS)
    THEN [port |-> None, probed |-> << >>]
    ELSE IF resp[i] = "ok"
         THEN [port |-> Some(MUSE_API_PORTS[i]), probed |-> <<MUSE_API_PORTS[i]>>]
         ELSE LET rest == probe_from(resp, i + 1)
              IN  [port |-> rest.port, probed |-> <<MUSE_API_PORTS[i]>> \o rest.probed]

\* Mutant: any response counts as found, whatever its status.
RECURSIVE probe_any_response_from(_, _)
probe_any_response_from(resp, i) ==
    IF i > Len(MUSE_API_PORTS)
    THEN [port |-> None, probed |-> << >>]
    ELSE IF resp[i] # "error"
         THEN [port |-> Some(MUSE_API_PORTS[i]), probed |-> <<MUSE_API_PORTS[i]>>]
         ELSE LET rest == probe_any_response_from(resp, i + 1)
              IN  [port |-> rest.port, probed |-> <<MUSE_API_PORTS[i]>> \o rest.probed]
discover_muse_port_any_status(resp) == probe_any_response_from(resp, 1)

discover_muse_port(resp) == probe_from(resp, 1)

\* What a call of the monitor can return.
MonitorResponses ==
    {resp \in ProbeResponses : \A i \in DOMAIN resp : i \notin LivePorts => resp[i] = "error"}
DiscoverResults == {discover_muse_port(resp).port : resp \in MonitorResponses}

\* --------------------------------------------------- focus debouncer

\* str::to_lowercase on the characters the labels use.
Upper ==
    <<"A", "B", "C", "D", "E", "F", "G", "H", "I", "J", "K", "L", "M",
      "N", "O", "P", "Q", "R", "S", "T", "U", "V", "W", "X", "Y", "Z">>
Lower ==
    <<"a", "b", "c", "d", "e", "f", "g", "h", "i", "j", "k", "l", "m",
      "n", "o", "p", "q", "r", "s", "t", "u", "v", "w", "x", "y", "z">>

\* char::to_lowercase on the characters labels are written with.
lower_char(c) ==
    IF \E i \in 1..Len(Upper) : Upper[i] = c
    THEN Lower[CHOOSE i \in 1..Len(Upper) : Upper[i] = c]
    ELSE c
to_lowercase(s) == [i \in 1..Len(s) |-> lower_char(s[i])]

\* str::contains
contains(s, pat) ==
    \E i \in 1..(Len(s) + 1) :
        /\ i + Len(pat) - 1 <= Len(s)
        /\ SubSeq(s, i, i + Len(pat) - 1) = pat

str_unfocused == <<"u", "n", "f", "o", "c", "u", "s", "e", "d">>
str_low == <<"l", "o", "w">>

\* Mutant: the label is matched as written, without lower-casing.
focus_state_case_sensitive(current_state) ==
    IF contains(current_state, str_unfocused) \/ contains(current_state, str_low)
    THEN "unfocused"
    ELSE "focused"

\* The coarse label of a stable raw label.
focus_state(current_state) ==
    IF contains(to_lowercase(current_state), str_unfocused)
       \/ contains(to_lowercase(current_state), str_low)
    THEN "unfocused"
    ELSE "focused"

\* The message of a focus_state_change event (the source's texts begin with an
\* emoji, left out here).
focus_message(current_state) ==
    DuckMessage(IF focus_state(current_state) = "unfocused"
                THEN "Distraction detected! Duck spawned."
                ELSE "Focus restored!",
                "focus_state_change", Some(focus_state(current_state)), 0)

state_changed(last_state, current_state) ==
    IF last_state # None THEN last_state[1] # current_state ELSE TRUE

\* Mutant: the elapsed time is taken in ticks of 500 ms, not in seconds.
elapsed_half_secs(change_time, t) == t - change_time

\* Instant::elapsed().as_secs(): whole seconds from change_time to t.
elapsed_secs(change_time, t) == (t - change_time) \div TicksPerSecond

\* Mutant: sending the message restarts the timer instead of clearing it.
debounce_restart_timer(last_state, last_change, current_state, t) ==
    IF state_changed(last_state, current_state)
    THEN [last_state |-> Some(current_state), last_change |-> Some(t), events |-> << >>]
    ELSE IF last_change # None /\ (t - last_change[1]) \div TicksPerSecond >= StableSecs
         THEN [last_state |-> last_state, last_change |-> Some(t),
               events |-> <<focus_message(current_state)>>]
         ELSE [last_state |-> last_state, last_change |-> last_change, events |-> << >>]

\* The block that holds last_focus_state and last_state_change, for a snapshot
\* labelled current_state taken at time t: the new fields and the message to send.
\* Mutant: the timer is left set when the event is emitted.
debounce_keep_timer(last_state, last_change, current_state, t) ==
    IF state_changed(last_state, current_state)
    THEN [last_state |-> Some(current_state), last_change |-> Some(t), events |-> << >>]
    ELSE IF last_change # None /\ elapsed_secs(last_change[1], t) >= StableSecs
         THEN [last_state |-> last_state, last_change |-> last_change,
               events |-> <<focus_message(current_state)>>]
         ELSE [last_state |-> last_state, last_change |-> last_change, events |-> << >>]

\* Mutant: the label must have been stable for more than StableSecs.
debounce_strictly_longer(last_state, last_change, current_state, t) ==
    IF state_changed(last_state, current_state)
    THEN [last_state |-> Some(current_state), last_change |-> Some(t), events |-> << >>]
    ELSE IF last_change # None /\ elapsed_secs(last_change[1], t) > StableSecs
         THEN [last_state |-> last_state, last_change |-> None,
               events |-> <<focus_message(current_state)>>]
         ELSE [last_state |-> last_state, last_change |-> last_change, events |-> << >>]

debounce(last_state, last_change, current_state, t) ==
    IF state_changed(last_state, current_state)
    THEN [last_state |-> Some(current_state), last_change |-> Some(t), events |-> << >>]
    ELSE IF last_change # None /\ elapsed_secs(last_change[1], t) >= StableSecs
         THEN [last_state |-> last_state, last_change |-> None,
               events |-> <<focus_message(current_state)>>]
         ELSE [last_state |-> last_state, last_change |-> last_change, events |-> << >>]

\* ------------------------------------------------ connectivity tracker

\* Mutant: every successful poll announces the connection.
mark_connected_every_poll(connected, failures, sent) ==
    [connected |-> TRUE, failures |-> 0, sent |-> FALSE, events |-> <<conn_msg>>]

\* The "Mark as connected" block of a successful poll.
mark_connected(connected, failures, sent) ==
    IF ~connected
    THEN [connected |-> TRUE, failures |-> 0, sent |-> FALSE, events |-> <<conn_msg>>]
    ELSE [connected |-> connected, failures |-> failures, sent |-> sent, events |-> << >>]

\* Mutant: the notified flag is not set after the message is sent.
handle_muse_failure_renotify(connected, failures, sent, last_state, last_change) ==
    LET f1 == failures + 1
        drop == f1 >= FailureThreshold /\ connected
        c1 == IF drop THEN FALSE ELSE connected
        s1 == IF drop THEN FALSE ELSE sent
        notify == ~c1 /\ ~s1
    IN  [connected |-> c1,
         failures |-> f1,
         sent |-> s1,
         last_state |-> IF drop THEN None ELSE last_state,
         last_change |-> IF drop THEN None ELSE last_change,
         events |-> IF notify THEN <<disconn_msg>> ELSE << >>]

\* Mutant: the transition to Disconnected leaves the debounce fields as they are.
handle_muse_failure_keep_focus(connected, failures, sent, last_state, last_change) ==
    LET f1 == failures + 1
        drop == f1 >= FailureThreshold /\ connected
        c1 == IF drop THEN FALSE ELSE connected
        s1 == IF drop THEN FALSE ELSE sent
        notify == ~c1 /\ ~s1
    IN  [connected |-> c1,
         failures |-> f1,
         sent |-> IF notify THEN TRUE ELSE s1,
         last_state |-> last_state,
         last_change |-> last_change,
         events |-> IF notify THEN <<disconn_msg>> ELSE << >>]

\* handle_muse_failure on the fields it locks.
\* Mutant: every failure signal closes the stability window.
handle_muse_failure_reset_window(connected, failures, sent, last_state, last_change) ==
    LET f1 == failures + 1
        drop == f1 >= FailureThreshold /\ connected
        c1 == IF drop THEN FALSE ELSE connected
        s1 == IF drop THEN FALSE ELSE sent
        notify == ~c1 /\ ~s1
    IN  [connected |-> c1,
         failures |-> f1,
         sent |-> IF notify THEN TRUE ELSE s1,
         last_state |-> IF drop THEN None ELSE last_state,
         last_change |-> None,
         events |-> IF notify THEN <<disconn_msg>> ELSE << >>]

handle_muse_failure(connected, failures, sent, last_state, last_change) ==
    LET f1 == failures + 1
        drop == f1 >= FailureThreshold /\ connected
        c1 == IF drop THEN FALSE ELSE connected
        s1 == IF drop THEN FALSE ELSE sent
        notify == ~c1 /\ ~s1
    IN  [connected |-> c1,
         failures |-> f1,
         sent |-> IF notify THEN TRUE ELSE s1,
         last_state |-> IF drop THEN None ELSE last_state,
         last_change |-> IF drop THEN None ELSE last_change,
         events |-> IF notify THEN <<disconn_msg>> ELSE << >>]

\* ------------------------------------------------------------- Init

NoPoll ==
    [outcome |-> "none", attention |-> None, events |-> << >>,
     located |-> FALSE, fetched |-> FALSE]

NoIteration ==
    [kind |-> "none",
     c |-> [connected |-> FALSE, failures |-> 0, sent |-> FALSE, events |-> << >>],
     drop |-> FALSE,
     d |-> [last_state |-> None, last_change |-> None, events |-> << >>]]

InitState ==
    /\ muse_connected = FALSE
    /\ consecutive_failures = 0
    /\ last_focus_state = None
    /\ last_state_change = None
    /\ message_count = 0
    /\ last_connection_message_sent = FALSE
    /\ muse_port = None
    /\ now = 0
    /\ ws_tx = << >>
    /\ app_emitted = << >>
    /\ posted = 0
    /\ poll = NoPoll
    /\ failure_run = 0
    /\ episode_events = 0
    /\ stable = [label |-> None, since |-> 0]
    /\ announced = [label |-> None, gap |-> FALSE]
    /\ connected_at = 0
    /\ ws_pc = [c \in Clients |-> "idle"]
    /\ rx_next = [c \in Clients |-> 0]
    /\ socket = [c \in Clients |-> << >>]
    /\ hung_up = [c \in Clients |-> FALSE]
    /\ rx_start = [c \in Clients |-> 0]
    /\ discovered = None
    /\ classified = None
    /\ lock = [m \in Mutexes |-> "free"]
    /\ pc = [t \in Tasks |-> 0]
    /\ mon_local = NoIteration
    /\ request_pending = "none"
    /\ status_count = 0
    /\ status = None

Init ==
    /\ InitState
    /\ probe_resp = [i \in 1..Len(MUSE_API_PORTS) |-> "error"]
    /\ raw_label = High

\* ------------------------------------------------- monitor_muse_metrics

\* `app.emit("duck-message", ..)` and `ws_tx.send(..)` for each event, in order.
\* The receiver start_servers keeps (`_rx`) lives as long as the server, so send
\* stores every value.
Publish(events) ==
    /\ ws_tx' = ws_tx \o events
    /\ app_emitted' = app_emitted \o events

\* The head of one loop iteration: the sleep, and the requests' duration.
Sleep(dt) == now' = now + dt

\* The port the iteration fetches from: the resolved one, or what discovery returns.
Resolved(p) ==
    IF muse_port = None THEN p \in DiscoverResults ELSE p = muse_port

Disconnected(events) == Len(SelectSeq(events, LAMBDA m : m = disconn_msg))

\* Mutant: a non-success status leaves the port resolved.
port_after_keep_on_bad_status(outcome, p) ==
    IF outcome \in {"success", "parse_failure", "bad_status"} THEN p ELSE None

\* muse_port at the end of an iteration that fetched from p (None when discovery
\* found nothing): `muse_port = None` in the bad-status and the Err arms only.
port_after(outcome, p) ==
    IF outcome \in {"success", "parse_failure"} THEN p ELSE None

\* A failure signal: handle_muse_failure, in an iteration that fetched from p.
Failure(outcome, p) ==
    LET r == handle_muse_failure(muse_connected, consecutive_failures,
                                 last_connection_message_sent,
                                 last_focus_state, last_state_change)
    IN  /\ muse_connected' = r.connected
        /\ consecutive_failures' = r.failures
        /\ last_connection_message_sent' = r.sent
        /\ last_focus_state' = r.last_state
        /\ last_state_change' = r.last_change
        /\ muse_port' = port_after(outcome, p)
        /\ Publish(r.events)
        /\ poll' = [outcome |-> outcome, attention |-> None, events |-> r.events,
                    located |-> (muse_port = None), fetched |-> (p # None)]
        /\ failure_run' = failure_run + 1
        /\ episode_events' = (IF muse_connected THEN 0 ELSE episode_events)
                              + Disconnected(r.events)
        /\ announced' = IF muse_connected /\ ~r.connected /\ announced.label # None
                         THEN [announced EXCEPT !.gap = TRUE]
                         ELSE announced
        /\ UNCHANGED <<message_count, posted, stable, connected_at, ws_vars, discover_vars, call_vars>>

\* Discovery finds no port: `handle_muse_failure(.., "API not found on any port")`.
PollNotFound ==
    \E dt \in IterationTicks :
        /\ Sleep(dt)
        /\ muse_port = None
        /\ None \in DiscoverResults
        /\ Failure("not_found", None)

\* Success status, body does not parse: the port is kept.
PollParseFailure ==
    \E dt \in IterationTicks, p \in DiscoverResults \ {None} :
        /\ Sleep(dt)
        /\ Resolved(p)
        /\ Failure("parse_failure", p)

\* Non-success status: the port is forgotten.
PollBadStatus ==
    \E dt \in IterationTicks, p \in DiscoverResults \ {None} :
        /\ Sleep(dt)
        /\ Resolved(p)
        /\ Failure("bad_status", p)

\* The request fails: the port is forgotten.
PollTransportError ==
    \E dt \in IterationTicks, p \in DiscoverResults \ {None} :
        /\ Sleep(dt)
        /\ Resolved(p)
        /\ Failure("transport_error", p)

\* Success status and a MuseMetrics body whose attention is `attention`.
PollSuccess(attention) ==
    \E dt \in IterationTicks, p \in DiscoverResults \ {None} :
        LET c == mark_connected(muse_connected, consecutive_failures,
                                last_connection_message_sent)
            d == debounce(last_focus_state, last_state_change, attention, now + dt)
        IN  /\ Sleep(dt)
            /\ Resolved(p)
            /\ muse_port' = port_after("success", p)
            /\ muse_connected' = c.connected
            /\ consecutive_failures' = c.failures
            /\ last_connection_message_sent' = c.sent
            /\ last_focus_state' = d.last_state
            /\ last_state_change' = d.last_change
            /\ message_count' = message_count + Len(d.events)
            /\ Publish(c.events \o d.events)
            /\ poll' = [outcome |-> "success", attention |-> Some(attention),
                        events |-> c.events \o d.events,
                        located |-> (muse_port = None), fetched |-> TRUE]
            /\ failure_run' = 0
            /\ episode_events' = 0
            /\ stable' = IF stable.label = Some(attention)
                         THEN stable
                         ELSE [label |-> Some(attention), since |-> now + dt]
            /\ announced' = IF d.events # << >>
                            THEN [label |-> Some(attention), gap |-> FALSE]
                            ELSE IF announced.label # Some(attention)
                                 THEN [label |-> None, gap |-> FALSE]
                                 ELSE announced
            /\ connected_at' = IF muse_connected THEN connected_at ELSE now + dt
            /\ UNCHANGED <<posted, ws_vars, discover_vars, call_vars>>

\* One call of discover_muse_port against ports that answer as probe_resp says.
Discover ==
    /\ discovered = None
    /\ discovered' = Some(discover_muse_port(probe_resp))
    /\ UNCHANGED <<probe_resp, monitor_vars, history_vars, channel_vars, ws_vars, call_vars>>

\* The event the debouncer builds for a stable raw label.
Classify ==
    /\ classified = None
    /\ classified' = Some(focus_message(raw_label))
    /\ UNCHANGED <<raw_label, task_vars, monitor_vars, history_vars, channel_vars, ws_vars,
                   discover_vars>>

\* ------------------------------------------------------ receive_message

\* POST /api/message with the sender's next message.
receive_message ==
    LET message == DuckMessage("duck", "message", None, posted + 1)
    IN  /\ posted' = posted + 1
        /\ message_count' = message_count + 1
        /\ Publish(<<message>>)
        /\ UNCHANGED <<monitor_vars, history_vars, ws_vars, discover_vars, call_vars>>

\* ----------------------------------------------------- handle_websocket

\* broadcast::channel rounds the capacity up to a power of two: the ring keeps
\* the last BufferLen values sent.
RECURSIVE power_of_two_from(_, _)
power_of_two_from(n, p) == IF p >= n THEN p ELSE power_of_two_from(n, p + p)
BufferLen == power_of_two_from(Capacity, 1)

\* Mutant: the new receiver starts at the oldest value the channel has sent.
WsSubscribe_replay(c) ==
    /\ ws_pc[c] = "idle"
    /\ ws_pc' = [ws_pc EXCEPT ![c] = "welcomed"]
    /\ rx_next' = [rx_next EXCEPT ![c] = 0]
    /\ rx_start' = [rx_start EXCEPT ![c] = Len(ws_tx)]
    /\ socket' = [socket EXCEPT ![c] = Append(@, welcome)]
    /\ UNCHANGED <<hung_up, monitor_vars, history_vars, channel_vars, discover_vars, call_vars>>

\* `state.ws_tx.subscribe()`: the new receiver starts at the tail of the channel;
\* then the welcome message is written to the socket.
WsSubscribe(c) ==
    /\ ws_pc[c] = "idle"
    /\ ws_pc' = [ws_pc EXCEPT ![c] = "welcomed"]
    /\ rx_next' = [rx_next EXCEPT ![c] = Len(ws_tx)]
    /\ rx_start' = [rx_start EXCEPT ![c] = Len(ws_tx)]
    /\ socket' = [socket EXCEPT ![c] = Append(@, welcome)]
    /\ UNCHANGED <<hung_up, monitor_vars, history_vars, channel_vars, discover_vars, call_vars>>

\* muse_connected is read and the status message is written to the socket.
WsStatus(c) ==
    /\ ws_pc[c] = "welcomed"
    /\ lock["muse_connected"] = "free"
    /\ ws_pc' = [ws_pc EXCEPT ![c] = "forwarding"]
    /\ socket' = [socket EXCEPT ![c] =
                      Append(@, IF muse_connected THEN conn_msg ELSE disconn_msg)]
    /\ UNCHANGED <<rx_next, hung_up, rx_start, monitor_vars, history_vars, channel_vars, discover_vars, call_vars>>

\* One turn of `while let Ok(msg) = rx.recv().await`; recv waits while nothing is
\* unread.  Ok(msg): msg is written to the socket.  Err(Lagged), when the value rx
\* would receive next has been overwritten: the loop ends, send_task finishes and
\* the handler returns, dropping rx and the socket.
WsForward(c) ==
    /\ ws_pc[c] = "forwarding"
    /\ rx_next[c] < Len(ws_tx)
    /\ IF Len(ws_tx) - rx_next[c] <= BufferLen
       THEN /\ socket' = [socket EXCEPT ![c] = Append(@, ws_tx[rx_next[c] + 1])]
            /\ rx_next' = [rx_next EXCEPT ![c] = @ + 1]
            /\ UNCHANGED ws_pc
       ELSE /\ ws_pc' = [ws_pc EXCEPT ![c] = "closed"]
            /\ UNCHANGED <<rx_next, socket>>
    /\ UNCHANGED <<hung_up, rx_start, monitor_vars, history_vars, channel_vars, discover_vars, call_vars>>

\* The client goes away: a socket send fails or its stream ends, and the
\* handler returns.
WsClose(c) ==
    /\ ws_pc[c] \in {"welcomed", "forwarding"}
    /\ ws_pc' = [ws_pc EXCEPT ![c] = "closed"]
    /\ hung_up' = [hung_up EXCEPT ![c] = TRUE]
    /\ UNCHANGED <<rx_next, socket, rx_start, monitor_vars, history_vars, channel_vars, discover_vars, call_vars>>

\* Sender::receiver_count: the receiver start_servers holds, and one per handler
\* that has subscribed and not returned.
receiver_count ==
    1 + Cardinality({c \in Clients : ws_pc[c] \in {"welcomed", "forwarding"}})

\* ---------------------------------------------------- tasks and mutexes

\* The tasks at the grain of their lock acquisitions. A task runs a program, a
\* sequence of instructions; an instruction waits for the mutex `acq` (when it
\* names one), takes its guard, does `eff` and drops the guards of `rel`.
ins(acq, eff, rel) == [acq |-> acq, eff |-> eff, rel |-> rel]

\* The block `prog`, whose guards `rel` are dropped where it ends.
block(prog, rel) == [prog EXCEPT ![Len(prog)].rel = @ \cup rel]

\* What an iteration will do, from the state at its start: the monitor alone
\* writes the fields its decisions read.
iteration(outcome, attention, t) ==
    IF outcome = "success"
    THEN [kind |-> "success",
          c |-> mark_connected(muse_connected, consecutive_failures,
                               last_connection_message_sent),
          drop |-> FALSE,
          d |-> debounce(last_focus_state, last_state_change, attention, t)]
    ELSE LET r == handle_muse_failure(muse_connected, consecutive_failures,
                                      last_connection_message_sent,
                                      last_focus_state, last_state_change)
         IN  [kind |-> "failure",
              c |-> [connected |-> r.connected, failures |-> r.failures,
                     sent |-> r.sent, events |-> r.events],
              drop |-> muse_connected /\ ~r.connected,
              d |-> [last_state |-> r.last_state, last_change |-> r.last_change,
                     events |-> << >>]]

\* Mutant: the guards of muse_connected and consecutive_failures are dropped
\* before the debounce state is cleared.
handle_muse_failure_program_early_release(l) ==
    <<ins("muse_connected", "none", {}),
      ins("consecutive_failures", "fail_count", {"consecutive_failures", "muse_connected"})>>
    \o (IF l.drop
        THEN <<ins("last_focus_state", "clear_focus_state", {"last_focus_state"}),
               ins("last_state_change", "clear_state_change", {"last_state_change"})>>
        ELSE << >>)
    \o (IF l.c.events # << >>
        THEN <<ins("tauri_handle", "publish_status", {"tauri_handle"})>>
        ELSE << >>)

\* handle_muse_failure: `connected` and `failures` are guards held to the end of
\* the function; the other locks are temporaries of one statement.
handle_muse_failure_program(l) ==
    block(<<ins("muse_connected", "none", {}),
            ins("consecutive_failures", "fail_count", {})>>
          \o (IF l.drop
              THEN <<ins("last_focus_state", "clear_focus_state", {"last_focus_state"}),
                     ins("last_state_change", "clear_state_change", {"last_state_change"})>>
              ELSE << >>)
          \o (IF l.c.events # << >>
              THEN <<ins("tauri_handle", "publish_status", {"tauri_handle"})>>
              ELSE << >>),
          {"consecutive_failures", "muse_connected"})

\* Mutant: the guards of the connection block are dropped before conn_msg is
\* published.
success_program_publish_unlocked(l) ==
    <<ins("muse_connected", "none", {}),
      ins("consecutive_failures", "mark_connected", {"consecutive_failures", "muse_connected"})>>
    \o (IF l.c.events # << >>
        THEN <<ins("tauri_handle", "publish_status", {"tauri_handle"})>>
        ELSE << >>)
    \o block(<<ins("last_focus_state", "none", {}),
               ins("last_state_change", "debounce", {})>>,
             {"last_state_change", "last_focus_state"})
    \o (IF l.d.events # << >>
        THEN <<ins("message_count", "count", {"message_count"}),
               ins("tauri_handle", "publish_focus", {"tauri_handle"})>>
        ELSE << >>)

\* The success arm: the connection block, the debounce block, then the send.
success_program(l) ==
    block(<<ins("muse_connected", "none", {}),
            ins("consecutive_failures", "mark_connected", {})>>
          \o (IF l.c.events # << >>
              THEN <<ins("tauri_handle", "publish_status", {"tauri_handle"})>>
              ELSE << >>),
          {"consecutive_failures", "muse_connected"})
    \o block(<<ins("last_focus_state", "none", {}),
               ins("last_state_change", "debounce", {})>>,
             {"last_state_change", "last_focus_state"})
    \o (IF l.d.events # << >>
        THEN <<ins("message_count", "count", {"message_count"}),
               ins("tauri_handle", "publish_focus", {"tauri_handle"})>>
        ELSE << >>)

monitor_program(l) ==
    IF l.kind = "success" THEN success_program(l) ELSE handle_muse_failure_program(l)

get_service_status_program ==
    <<ins("message_count", "read_count", {"message_count"}),
      ins("muse_connected", "read_connected", {"muse_connected"})>>

\* Mutant: the relay looks at muse_connected while it holds the tauri_handle guard.
receive_message_program_nested ==
    <<ins("message_count", "count", {"message_count"}),
      ins("tauri_handle", "none", {}),
      ins("muse_connected", "publish_post", {"muse_connected", "tauri_handle"})>>

receive_message_program ==
    <<ins("message_count", "count", {"message_count"}),
      ins("tauri_handle", "publish_post", {"tauri_handle"})>>

Program(t) ==
    CASE t = "monitor" -> monitor_program(mon_local)
      [] t = "status" -> get_service_status_program
      [] t = "relay" -> receive_message_program

\* WebSocket clients that hold a subscription.
subscribers == Cardinality({c \in Clients : ws_pc[c] \in {"welcomed", "forwarding"}})

\* The fields the instructions read and write.
Shared ==
    [muse_connected |-> muse_connected,
     consecutive_failures |-> consecutive_failures,
     last_focus_state |-> last_focus_state,
     last_state_change |-> last_state_change,
     sent |-> last_connection_message_sent,
     message_count |-> message_count,
     ws_tx |-> ws_tx,
     app_emitted |-> app_emitted,
     posted |-> posted,
     status_count |-> status_count,
     status |-> status]

\* The fields after the effect `eff` of an instruction, l being the iteration the
\* monitor is processing.
apply(eff, s, l) ==
    CASE eff = "none" -> s
      [] eff = "fail_count" ->
            [s EXCEPT !.consecutive_failures = l.c.failures,
                      !.muse_connected = l.c.connected,
                      !.sent = IF l.drop THEN FALSE ELSE @]
      [] eff = "clear_focus_state" -> [s EXCEPT !.last_focus_state = None]
      [] eff = "clear_state_change" -> [s EXCEPT !.last_state_change = None]
      [] eff = "mark_connected" ->
            [s EXCEPT !.muse_connected = l.c.connected,
                      !.consecutive_failures = l.c.failures,
                      !.sent = l.c.sent]
      [] eff = "publish_status" ->
            [s EXCEPT !.app_emitted = @ \o l.c.events,
                      !.ws_tx = @ \o l.c.events,
                      !.sent = l.c.sent]
      [] eff = "debounce" ->
            [s EXCEPT !.last_focus_state = l.d.last_state,
                      !.last_state_change = l.d.last_change]
      [] eff = "count" -> [s EXCEPT !.message_count = @ + 1]
      [] eff = "publish_focus" ->
            [s EXCEPT !.app_emitted = @ \o l.d.events,
                      !.ws_tx = @ \o l.d.events]
      [] eff = "publish_post" ->
            [s EXCEPT !.posted = @ + 1,
                      !.app_emitted = Append(@, DuckMessage("duck", "message", None,
                                                            s.posted + 1)),
                      !.ws_tx = Append(@, DuckMessage("duck", "message", None,
                                                      s.posted + 1))]
      [] eff = "read_count" ->
            [s EXCEPT !.status_count = s.message_count]
      [] eff = "read_connected" ->
            [s EXCEPT !.status = Some([http_server |-> TRUE,
                                       websocket_server |-> TRUE,
                                       extension_connected |-> receiver_count > 0,
                                       messages_received |-> s.status_count,
                                       muse_connected |-> s.muse_connected])]

\* One instruction of task t.
TaskStep(t) ==
    /\ pc[t] > 0
    /\ LET i == Program(t)[pc[t]]
           s == apply(i.eff, Shared, mon_local)
       IN  /\ i.acq # "none" => lock[i.acq] = "free"
           /\ lock' = [m \in Mutexes |->
                          IF m \in i.rel THEN "free"
                          ELSE IF m = i.acq THEN t ELSE lock[m]]
           /\ pc' = [pc EXCEPT ![t] = IF pc[t] = Len(Program(t)) THEN 0 ELSE pc[t] + 1]
           /\ muse_connected' = s.muse_connected
           /\ consecutive_failures' = s.consecutive_failures
           /\ last_focus_state' = s.last_focus_state
           /\ last_state_change' = s.last_state_change
           /\ last_connection_message_sent' = s.sent
           /\ message_count' = s.message_count
           /\ ws_tx' = s.ws_tx
           /\ app_emitted' = s.app_emitted
           /\ posted' = s.posted
           /\ status_count' = s.status_count
           /\ status' = s.status
    /\ UNCHANGED <<muse_port, now, poll, mon_local, request_pending, raw_label, classified,
                   history_vars, ws_vars, discover_vars>>

\* A call of get_service_status or a POST to /api/message arrives.
Call(t) ==
    /\ t # "monitor"
    /\ pc[t] = 0
    /\ pc' = [pc EXCEPT ![t] = 1]
    /\ UNCHANGED <<lock, mon_local, request_pending, status_count, status,
                   raw_label, classified,
                   monitor_vars, history_vars, channel_vars, ws_vars, discover_vars>>

\* The monitor sleeps, its requests are answered, and it starts on the outcome.
MonBegin(outcome, attention) ==
    /\ pc["monitor"] = 0
    /\ request_pending = "none"
    /\ \E dt \in IterationTicks, p \in DiscoverResults :
            /\ IF outcome = "not_found"
               THEN muse_port = None /\ p = None
               ELSE p # None /\ Resolved(p)
            /\ Sleep(dt)
            /\ muse_port' = port_after(outcome, p)
            /\ mon_local' = iteration(outcome, attention, now + dt)
    /\ pc' = [pc EXCEPT !["monitor"] = 1]
    /\ UNCHANGED <<muse_connected, consecutive_failures, last_focus_state,
                   last_state_change, last_connection_message_sent, poll,
                   lock, request_pending, status_count, status,
                   raw_label, classified,
                   history_vars, channel_vars, ws_vars, discover_vars>>

\* The monitor sleeps and sends a probe or the metrics request; the remote end
\* accepts it and never answers. The client is built with Client::new(): no
\* timeout is set, so the `.send().await` does not complete.
MonHang ==
    /\ pc["monitor"] = 0
    /\ request_pending = "none"
    /\ \E kind \in {"probe", "metrics"}, p \in DiscoverResults \ {None} :
            /\ IF kind = "probe"
               THEN muse_port = None /\ muse_port' = None
               ELSE Resolved(p) /\ muse_port' = p
            /\ request_pending' = kind
    /\ Sleep(SleepTicks)
    /\ UNCHANGED <<muse_connected, consecutive_failures, last_focus_state,
                   last_state_change, last_connection_message_sent, poll,
                   lock, pc, mon_local, status_count, status,
                   raw_label, classified,
                   history_vars, channel_vars, ws_vars, discover_vars>>

\* ------------------------------------------------------ specifications

WsStep(c) ==
    \/ WsSubscribe(c)
    \/ WsStatus(c)
    \/ WsForward(c)
    \/ WsClose(c)

\* The monitor task alone, up to MaxTime.
Next ==
    \/ PollNotFound /\ now' <= MaxTime
    \/ PollParseFailure /\ now' <= MaxTime
    \/ PollBadStatus /\ now' <= MaxTime
    \/ PollTransportError /\ now' <= MaxTime
    \/ \E attention \in AttentionLabels : PollSuccess(attention) /\ now' <= MaxTime

Spec == Init /\ [][Next]_vars

\* The monitor task, the HTTP relay and the WebSocket handlers together.
NextServe ==
    \/ PollNotFound /\ now' <= ServeTime
    \/ PollParseFailure /\ now' <= ServeTime
    \/ PollBadStatus /\ now' <= ServeTime
    \/ PollTransportError /\ now' <= ServeTime
    \/ \E attention \in AttentionLabels : PollSuccess(attention) /\ now' <= ServeTime
    \/ posted < MaxPosted /\ receive_message
    \/ \E c \in Clients : WsStep(c)

SpecServe == Init /\ [][NextServe]_vars

\* One WebSocket client and a burst of relayed messages that overruns the ring.
NextBurst ==
    \/ posted < MaxBurst /\ receive_message
    \/ WsStep("c1")

SpecBurst == Init /\ [][NextBurst]_vars

\* discover_muse_port, for every way the candidate ports can answer.
InitDiscover ==
    /\ InitState
    /\ probe_resp \in ProbeResponses
    /\ raw_label = High

NextDiscover == Discover

SpecDiscover == InitDiscover /\ [][NextDiscover]_vars

\* The label classification alone, over every raw label of RawLabels.
InitLabel ==
    /\ InitState
    /\ probe_resp = [i \in 1..Len(MUSE_API_PORTS) |-> "error"]
    /\ raw_label \in RawLabels

NextLabel == Classify

SpecLabel == InitLabel /\ [][NextLabel]_vars

\* The iterations the monitor makes there: the source listens on the first
\* candidate port and answers within the sleep, or the connection fails.
TaskOutcomes == {"success", "transport_error"}
TaskPace ==
    /\ now' = now + SleepTicks
    /\ now' <= TaskTime
    /\ muse_port' \in {None, Some(MUSE_API_PORTS[1])}

\* The tasks interleaved at the grain of their lock acquisitions: the monitor,
\* get_service_status, receive_message and a WebSocket handler. Every task
\* takes its steps whenever it can.
NextTasks ==
    \/ \E outcome \in TaskOutcomes : MonBegin(outcome, Low) /\ TaskPace
    \/ TaskStep("monitor")
    \/ status = None /\ Call("status")
    \/ TaskStep("status")
    \/ posted < MaxPosted /\ Call("relay")
    \/ TaskStep("relay")
    \/ WsSubscribe("c1")
    \/ WsStatus("c1")

SpecTasks == Init /\ [][NextTasks]_vars

\* The monitor alone, with a source that may accept a request and never answer.
Outcomes == {"success", "not_found", "parse_failure", "bad_status", "transport_error"}

NextHang ==
    \/ \E outcome \in Outcomes, attention \in AttentionLabels :
          MonBegin(outcome, attention) /\ now' <= TaskTime
    \/ MonHang /\ now' <= TaskTime
    \/ TaskStep("monitor")

SpecHang == Init /\ [][NextHang]_vars

\* get_service_status beside the monitor, the relay and the WebSocket clients.
NextStatus ==
    \/ PollNotFound /\ now' <= ServeTime
    \/ PollParseFailure /\ now' <= ServeTime
    \/ PollBadStatus /\ now' <= ServeTime
    \/ PollTransportError /\ now' <= ServeTime
    \/ \E attention \in AttentionLabels : PollSuccess(attention) /\ now' <= ServeTime
    \/ posted < MaxPosted /\ receive_message
    \/ \E c \in Clients : WsSubscribe(c)
    \/ \E c \in Clients : WsStatus(c)
    \/ \E c \in Clients : WsClose(c)
    \/ Call("status")
    \/ TaskStep("status")

SpecStatus == Init /\ [][NextStatus]_vars

\* A WebSocket handler beside the monitor and the relay, the tasks at the grain
\* of their lock acquisitions.
NextSocket ==
    \/ \E outcome \in TaskOutcomes : MonBegin(outcome, Low) /\ TaskPace
    \/ TaskStep("monitor")
    \/ posted < MaxPosted /\ Call("relay")
    \/ TaskStep("relay")
    \/ WsSubscribe("c1")
    \/ WsStatus("c1")
    \/ WsForward("c1")

SpecSocket == Init /\ [][NextSocket]_vars

\* ------------------------------------------------------------ properties

\* The events a step publishes on the broadcast channel.
Emitted == SubSeq(ws_tx', Len(ws_tx) + 1, Len(ws_tx'))
Connected(events) == Len(SelectSeq(events, LAMBDA m : m = conn_msg))
FocusEvents(events) == SelectSeq(events, LAMBDA m : m.msg_type = "focus_state_change")
StatusEvents(events) == SelectSeq(events, LAMBDA m : m.msg_type = "connection_status")
StableTicks == StableSecs * TicksPerSecond
Reconnects == ~muse_connected /\ muse_connected'
Disconnects == muse_connected /\ ~muse_connected'

\* C1: an iteration publishes "EEG Disconnected" only when it is at least the 5th
\* failure signal in a row.
C1_NoDisconnectedBeforeFifthFailure ==
    Disconnected(poll.events) > 0 => failure_run >= FailureThreshold

\* C2: the monitor goes from Connected to Disconnected only on a failure signal
\* that is at least the 5th in a row, with no success signal in between.
C2_DisconnectOnlyAfterConsecutiveRun ==
    [][Disconnects => failure_run' >= FailureThreshold]_vars

\* C3, as claimed: every disconnection episode, when the success signal that ends
\* it arrives, has seen exactly one "EEG Disconnected" event.
C3_ExactlyOnePerEpisode ==
    [][Reconnects => episode_events = 1]_vars

\* C3, amended: an episode sees at most one "EEG Disconnected" event; every
\* episode that begins with the Connected -> Disconnected transition sees exactly
\* one, published by the failure signal that makes the transition, however many
\* failure signals follow; the notified flag is cleared only by the success signal
\* that reconnects.
C3_OnePerEpisodeOnceFailed ==
    [][/\ episode_events' <= 1
       /\ (~muse_connected' /\ connected_at' > 0) => episode_events' = 1
       /\ Disconnects => Disconnected(Emitted) = 1
       /\ (~muse_connected /\ ~muse_connected' /\ last_connection_message_sent)
              => Disconnected(Emitted) = 0
       /\ (last_connection_message_sent /\ ~last_connection_message_sent')
              => (Reconnects /\ poll'.outcome = "success")]_vars

C3_Witness ==
    /\ ~muse_connected
    /\ ws_tx = <<conn_msg, disconn_msg>>
    /\ failure_run >= FailureThreshold + 2
    /\ episode_events = 1

\* C4: a success signal while Disconnected connects, zeroes the failure count and
\* publishes one "EEG Connected"; a success signal while Connected leaves the
\* connectivity state alone and publishes no connection_status event; so an
\* "EEG Connected" event is only ever published out of the Disconnected state.
C4_SuccessSignal ==
    [][/\ poll'.outcome = "success" =>
              IF ~muse_connected
              THEN /\ muse_connected'
                   /\ consecutive_failures' = 0
                   /\ Connected(Emitted) = 1
                   /\ Len(StatusEvents(Emitted)) = 1
              ELSE /\ UNCHANGED <<muse_connected, consecutive_failures,
                                  last_connection_message_sent>>
                   /\ StatusEvents(Emitted) = << >>
       /\ Connected(Emitted) > 0 => (~muse_connected /\ muse_connected')]_vars

C4_Witness ==
    /\ poll.outcome = "success"
    /\ poll.events = <<conn_msg>>
    /\ muse_connected
    /\ consecutive_failures = 0
    /\ Connected(ws_tx) = 2

\* C5: a focus_state_change event is published only by a successful snapshot whose
\* label equals last_focus_state, at least 2 s after last_state_change, and every
\* successful snapshot since then carried that label.
C5_EventOnlyAfterStableLabel ==
    [][FocusEvents(Emitted) # << >> =>
          /\ poll'.outcome = "success"
          /\ last_focus_state = poll'.attention
          /\ last_state_change # None
          /\ now' - last_state_change[1] >= StableTicks
          /\ stable'.label = poll'.attention
          /\ stable'.since <= last_state_change[1]]_vars

C5_Witness ==
    /\ FocusEvents(poll.events) # << >>
    /\ now - stable.since = StableTicks

\* C6, as claimed: once a label has been announced, no event is published for as
\* long as every snapshot observed since carries that label.
C6_AnnouncedOnce ==
    [][FocusEvents(Emitted) # << >> => announced.label # poll'.attention]_vars

\* C6, amended: ... unless the monitor went from Connected to Disconnected since
\* the announcement.
C6_AnnouncedOncePerConnection ==
    [][FocusEvents(Emitted) # << >> =>
          (announced.label # poll'.attention \/ announced.gap)]_vars

C6_Witness ==
    /\ poll.outcome = "success"
    /\ poll.events = << >>
    /\ announced.label = poll.attention
    /\ ~announced.gap
    /\ last_state_change = None
    /\ now - stable.since >= 2 * StableTicks

\* C7: the Connected -> Disconnected transition clears both debounce fields; the
\* snapshot that reconnects publishes no focus event and opens a window at its own
\* time; a focus event comes 2 s after the reconnection at the earliest.
C7_DisconnectClearsDebounce ==
    [][/\ Disconnects => (last_focus_state' = None /\ last_state_change' = None)
       /\ Reconnects => /\ FocusEvents(Emitted) = << >>
                        /\ last_focus_state' = poll'.attention
                        /\ last_state_change' = Some(now')
       /\ FocusEvents(Emitted) # << >> => now' - connected_at' >= StableTicks]_vars

C7_Witness ==
    /\ muse_connected
    /\ poll.events = <<conn_msg>>
    /\ announced.gap
    /\ announced.label = last_focus_state
    /\ last_state_change = Some(now)
    /\ now - stable.since > StableTicks

\* What client c's socket has carried after the welcome and the status message.
Forwarded(c) == SubSeq(socket[c], 3, Len(socket[c]))

\* C8: the handler of a client that has not gone away keeps its subscription, and
\* what it forwards is in publish order, however far behind it has fallen.
C8_SlowSubscriberKeepsReceiving ==
    \A c \in Clients :
        (~hung_up[c] /\ ws_pc[c] # "idle") =>
            /\ ws_pc[c] # "closed"
            /\ \A i \in 1..Len(Forwarded(c)) :
                   Forwarded(c)[i] = ws_tx[rx_start[c] + i]

\* C9: in every state, whatever the other clients have or have not consumed, what
\* a client has been forwarded is exactly the run of values sent after it
\* subscribed, in the order sent, with none from before and none skipped, and the
\* next value it receives is the one after that run.
C9_SubscriptionSeesOnlyLaterEvents ==
    \A c \in Clients :
        /\ Forwarded(c) = SubSeq(ws_tx, rx_start[c] + 1, rx_start[c] + Len(Forwarded(c)))
        /\ rx_start[c] + Len(Forwarded(c)) <= Len(ws_tx)
        /\ ws_pc[c] = "forwarding" => rx_next[c] = rx_start[c] + Len(Forwarded(c))

C9_Witness ==
    /\ rx_start["c1"] = 0
    /\ Len(Forwarded("c1")) = 2
    /\ \E i, j \in 1..2 : /\ Forwarded("c1")[i].msg_type = "connection_status"
                          /\ Forwarded("c1")[j].msg_type = "message"
    /\ ws_pc["c2"] = "forwarding"
    /\ rx_start["c2"] = 1
    /\ Forwarded("c2") = <<ws_tx[2]>>

\* C10: the ports probed are a prefix of MUSE_API_PORTS (list order, each once);
\* the port returned is the first that answers with a success status, and is the
\* last one probed; None is returned only after every port was probed and none
\* answered with success; the shared monitor state is as it was.
IsPrefix(s, t) == Len(s) <= Len(t) /\ s = SubSeq(t, 1, Len(s))
C10_FirstSuccessfulPort ==
    discovered # None =>
        LET r == discovered[1]
            n == Len(r.probed)
        IN  /\ IsPrefix(r.probed, MUSE_API_PORTS)
            /\ \A i \in 1..(n - 1) : probe_resp[i] # "ok"
            /\ IF r.port # None
               THEN /\ n >= 1
                    /\ r.port = Some(MUSE_API_PORTS[n])
                    /\ probe_resp[n] = "ok"
               ELSE /\ n = Len(MUSE_API_PORTS)
                    /\ \A i \in 1..n : probe_resp[i] # "ok"
            /\ ~muse_connected /\ consecutive_failures = 0
            /\ last_focus_state = None /\ last_state_change = None
            /\ message_count = 0 /\ ws_tx = << >>

C10_Witness ==
    /\ discovered # None
    /\ probe_resp[1] = "bad_status"
    /\ probe_resp[2] = "error"
    /\ probe_resp[3] = "ok"
    /\ probe_resp[5] = "ok"
    /\ discovered[1].port = Some(MUSE_API_PORTS[3])
    /\ Len(discovered[1].probed) = 3

\* C11: a bad-status or transport-failure iteration leaves muse_port None; a
\* success or a parse failure leaves the port it fetched from, which is the port it
\* started with when it had one; an iteration runs discovery exactly when it starts
\* with no port, and then before any fetch; an iteration whose discovery finds
\* nothing is one failure signal and sends no metrics request.
C11_PortClearedOnBadStatusOrError ==
    [][/\ poll'.outcome \in {"bad_status", "transport_error"} => muse_port' = None
       /\ poll'.outcome \in {"success", "parse_failure"} =>
              /\ muse_port' # None
              /\ muse_port # None => muse_port' = muse_port
       /\ poll'.located = (muse_port = None)
       /\ poll'.fetched = (poll'.outcome # "not_found")
       /\ poll'.outcome = "not_found" =>
              /\ poll'.located
              /\ muse_port' = None
              /\ consecutive_failures' = consecutive_failures + 1
              /\ failure_run' = failure_run + 1]_vars

C11_Witness ==
    /\ muse_connected
    /\ poll.located
    /\ poll.outcome = "parse_failure"
    /\ muse_port # None

SameLetter(a, b) ==
    a = b \/ \E i \in 1..Len(Upper) : {a, b} = {Upper[i], Lower[i]}

\* pat occurs in s when case is ignored.
OccursIgnoringCase(s, pat) ==
    \E i \in 1..Len(s) :
        /\ i + Len(pat) - 1 <= Len(s)
        /\ \A k \in 1..Len(pat) : SameLetter(s[i + k - 1], pat[k])

\* The labels the specification gives as examples.
UnfocusedExamples ==
    {<<"U", "N", "F", "O", "C", "U", "S", "E", "D">>,
     <<"l", "o", "w", " ", "f", "o", "c", "u", "s">>,
     <<"U", "n", "f", "o", "c", "u", "s", "e", "d", "-", "L", "o", "w">>}
FocusedExamples ==
    {High, <<"F", "o", "c", "u", "s", "e", "d">>, <<"N", "e", "u", "t", "r", "a", "l">>}

\* C13: the event built for a raw label has the coarse label "unfocused" exactly
\* when the label, case ignored, contains "unfocused" or "low", and "focused"
\* otherwise; its message is the distraction message exactly when the coarse label
\* is "unfocused", and the focus-restored message otherwise.
C13_CoarseLabel ==
    classified # None =>
        LET m == classified[1]
            unfocused == \/ OccursIgnoringCase(raw_label, str_unfocused)
                         \/ OccursIgnoringCase(raw_label, str_low)
        IN  /\ m.focus_state = Some(IF unfocused THEN "unfocused" ELSE "focused")
            /\ m.message = "Distraction detected! Duck spawned."
                   <=> m.focus_state = Some("unfocused")
            /\ m.message = "Focus restored!" <=> m.focus_state = Some("focused")
            /\ m.msg_type = "focus_state_change"
            /\ raw_label \in UnfocusedExamples => m.focus_state = Some("unfocused")
            /\ raw_label \in FocusedExamples => m.focus_state = Some("focused")

C13_Witness ==
    /\ raw_label = <<"U", "N", "F", "O", "C", "U", "S", "E", "D">>
    /\ classified # None
    /\ classified[1].focus_state = Some("unfocused")

\* When the window of the label of the last snapshot opened: when that label was
\* first seen, or the reconnection after it when a disconnect came in between.
WindowStart == IF stable.since >= connected_at THEN stable.since ELSE connected_at

\* C14: a successful snapshot of a connected monitor that repeats the label of the
\* snapshot before it emits a focus event exactly when it is processed
\* StableSecs or more after the window of that label opened and no event was
\* emitted in this window before: the first such snapshot emits, none before it
\* does, and the failed iterations in between change nothing of this as long as
\* the monitor stays connected.
C14_EmittedAtFirstStableSnapshot ==
    [][(/\ poll'.outcome = "success"
        /\ muse_connected
        /\ stable.label = poll'.attention)
       => (FocusEvents(Emitted) # << >>
             <=> /\ now' - WindowStart >= StableTicks
                 /\ ~(announced.label = poll'.attention /\ ~announced.gap))]_vars

C14_Witness ==
    /\ poll.outcome = "success"
    /\ FocusEvents(poll.events) # << >>
    /\ consecutive_failures >= 2
    /\ now - stable.since = StableTicks
    /\ connected_at <= stable.since

\* The three situations of C20, from the history of the run.
NoSnapshotYet == stable.label = None
ClearedByDisconnect == ~muse_connected /\ connected_at > 0
AnnouncedCurrent == last_focus_state # None /\ announced.label = last_focus_state

\* C20 as claimed: last_state_change is set only if last_focus_state is, and it is
\* None exactly when no snapshot was processed yet, or a disconnect cleared the
\* debounce state, or an event was emitted for the current last_focus_state and
\* no other label was seen since.
C20_NoneExactlyInThreeSituations ==
    /\ last_state_change # None => last_focus_state # None
    /\ last_state_change = None
          <=> (NoSnapshotYet \/ ClearedByDisconnect \/ AnnouncedCurrent)

\* C20, amended: the third situation also needs that the monitor has not been
\* disconnected since the event was emitted.
C20_NoneExactlyWhenNoWindowOpen ==
    /\ last_state_change # None => last_focus_state # None
    /\ last_state_change = None
          <=> \/ NoSnapshotYet
              \/ ClearedByDisconnect
              \/ AnnouncedCurrent /\ ~announced.gap

C20_Witness ==
    /\ muse_connected
    /\ AnnouncedCurrent
    /\ announced.gap
    /\ last_state_change # None

awaited(t) == IF pc[t] > 0 THEN Program(t)[pc[t]].acq ELSE "none"

\* Task t waits for a mutex another guard holds.
Waiting(t) == awaited(t) # "none" /\ lock[awaited(t)] # "free"

\* Task t is running and can take its next step, now or after the tasks it
\* waits for, directly or through others, have taken theirs.
RECURSIVE CanRun(_, _)
CanRun(t, fuel) ==
    /\ pc[t] > 0
    /\ \/ ~Waiting(t)
       \/ /\ fuel > 0
          /\ lock[awaited(t)] # t
          /\ CanRun(lock[awaited(t)], fuel - 1)

\* C17: no task is ever stuck on a mutex. Every running task can take its next
\* step, at once or once the holders it waits for have moved on; a WebSocket
\* handler about to read muse_connected waits at most for a holder that can
\* move on; and no guard outlives the operation that took it. The operations
\* have finitely many steps each, so every acquisition succeeds and
\* get_service_status returns.
C17_NoTaskStuck ==
    /\ \A t \in Tasks : pc[t] > 0 => CanRun(t, Cardinality(Tasks))
    /\ \A c \in Clients :
          (ws_pc[c] = "welcomed" /\ lock["muse_connected"] # "free")
             => CanRun(lock["muse_connected"], Cardinality(Tasks))
    /\ \A m \in Mutexes : lock[m] # "free" => pc[lock[m]] > 0

\* The three readers are in flight while the monitor holds the guard of
\* muse_connected.
C17_Witness ==
    /\ lock["muse_connected"] = "monitor"
    /\ pc["status"] = 2
    /\ pc["relay"] > 0
    /\ ws_pc["c1"] = "welcomed"

\* A step the monitor task can take.
MonitorMoves ==
    \/ \E outcome \in Outcomes, attention \in AttentionLabels : MonBegin(outcome, attention)
    \/ MonHang
    \/ TaskStep("monitor")

\* C16: a request the remote end never answers does not stall the loop: while
\* such a request is pending the monitor can still move on (give the request up,
\* count a failure, start the next cycle).
C16_HungRequestAbandoned == request_pending # "none" => ENABLED MonitorMoves

\* get_service_status builds its answer in this step.
StatusReturns == pc["status"] = 2 /\ pc'["status"] = 0

\* get_service_status reads message_count in this step.
StatusReadsCount == pc["status"] = 1 /\ pc'["status"] = 2

\* C18: the answer of get_service_status has extension_connected = true exactly
\* when, as it is built, at least one WebSocket client holds a subscription.
C18_ExtensionConnectedIffSubscriber ==
    [][StatusReturns => status'[1].extension_connected = (subscribers > 0)]_vars

\* C19: the counter get_service_status reads is the number of events published
\* on the broadcast channel so far, that is what it returns, and the counter
\* never decreases.
C19_CountsEveryPublishedEvent ==
    [][/\ StatusReadsCount => status_count' = Len(ws_tx)
       /\ StatusReturns => status'[1].messages_received = status_count
       /\ message_count' >= message_count]_vars

\* The handler has subscribed and written its status message, it has not
\* lagged, and nothing published is left unread.
Drained(c) == ws_pc[c] = "forwarding" /\ rx_next[c] = Len(ws_tx)

\* The flag the last connection_status message on the socket of c tells.
LastStatus(c) ==
    LET st == StatusEvents(socket[c]) IN st[Len(st)] = conn_msg

\* C21: the socket of a client carries the welcome message, then one
\* connection_status message, then the events published since its subscription
\* in publish order; the second message tells the value of muse_connected as
\* long as no connection_status event has been published since the
\* subscription; and when the client has drained its subscription, the last
\* connection_status message on the socket tells the value of muse_connected.
\* The value of muse_connected is the one a task reads under its lock.
C21_LastStatusAgreesWithFlag ==
    \A c \in Clients :
        LET s == socket[c] IN
        /\ Len(s) >= 1 => s[1] = welcome
        /\ Len(s) >= 2 =>
               /\ s[2] \in {conn_msg, disconn_msg}
               /\ Forwarded(c) = SubSeq(ws_tx, rx_start[c] + 1, rx_next[c])
               /\ (/\ StatusEvents(SubSeq(ws_tx, rx_start[c] + 1, Len(ws_tx))) = << >>
                   /\ lock["muse_connected"] = "free")
                  => (s[2] = conn_msg) = muse_connected
        /\ (Drained(c) /\ lock["muse_connected"] = "free") =>
               LastStatus(c) = muse_connected

\* A client read the flag while it was false; the monitor connected and then
\* dropped the connection; the client has forwarded both events and, after
\* them, a relayed message.
C21_Witness ==
    \E c \in Clients :
        /\ Drained(c)
        /\ lock["muse_connected"] = "free"
        /\ ~muse_connected
        /\ socket[c][2] = disconn_msg
        /\ Len(StatusEvents(Forwarded(c))) >= 2
        /\ Connected(Forwarded(c)) >= 1
        /\ socket[c][Len(socket[c])].msg_type = "message"

====
